---- MODULE Spec2Model ----
(***************************************************************************)
(* Model of generate_hive_data_json.py: the synthetic beehive reading      *)
(* generator (generate_beehive_data) and the driver that writes the two    *)
(* JSON files (save_data_to_json).                                         *)
(*                                                                         *)
(* Floating-point values are modelled in fixed point:                      *)
(*   - sines, temperature, humidity, weight, seasonal_factor: 1/10000      *)
(*   - activity: 1/100 (so activity / 100 is exact at resolution 1/10000)  *)
(*   - hourly/cumulative production and efficiency: 1e-7 kg                *)
(*   - the uniform multiplier: 1/1000                                      *)
(* Every product is rounded to the nearest unit, as a float product is     *)
(* rounded to the nearest float. All intermediate values fit in 32 bits.   *)
(***************************************************************************)
EXTENDS Integers, Sequences, FiniteSets

VARIABLES
    pc,                     \* position in save_data_to_json / generate_beehive_data
    end_time,               \* datetime.now(), in hours since Jan 1 00:00
    time_range,             \* pd.date_range(start_time, end_time, freq='h')
    t,                      \* index of the outer loop in time_range
    h,                      \* index of the inner loop in hives_config
    cumulative_production,  \* running total per hive id (1e-7 kg)
    data,                   \* the list of emitted readings
    produced,               \* history: the unrounded hourly_production of each reading
    noisy,                  \* history: readings drawn with a non-median noise sample
    beehive_file,           \* beehive_data.json on disk
    hives_file,             \* hives_config.json on disk
    exception,              \* what raised, "none" while nothing has
    result,                 \* the return value of save_data_to_json
    row                     \* input and output of one loop body (RowSpec)

vars == <<pc, end_time, time_range, t, h, cumulative_production, data, produced,
          noisy, beehive_file, hives_file, exception, result, row>>

----------------------------------------------------------------------------
(* Bounds of the model *)

\* Length of the generated window in hours (the program uses 30 days).
WindowHours == 1

\* Readings of one run whose random draws differ from the median draw.
MaxNoisy == 1

----------------------------------------------------------------------------
(* Fixed-point arithmetic *)

\* Resolution of sines, sensor values and factors: 1/10000.
Scale == 10000

\* Resolution of activity: 1/100.
ActivityScale == 100

\* Resolution of the uniform multiplier: 1/1000.
UniformScale == 1000

\* One kilogram in production units (1e-7 kg).
Kg == 10000000

\* Python's round(): to the nearest multiple of unit, ties to the even multiple.
Round(x, unit) ==
    LET q == x \div unit
        r == x % unit
    IN  IF 2 * r < unit THEN q * unit
        ELSE IF 2 * r > unit THEN (q + 1) * unit
        ELSE IF q % 2 = 0 THEN q * unit ELSE (q + 1) * unit

\* a / b rounded to the nearest unit (a float quotient or product is rounded).
FixDiv(a, b) == Round(a, b) \div b

\* sin(2*pi*k/24) for k = 0..23, in 1/10000.
Sin24Table ==
    <<0, 2588, 5000, 7071, 8660, 9659, 10000, 9659, 8660, 7071, 5000, 2588,
      0, -2588, -5000, -7071, -8660, -9659, -10000, -9659, -8660, -7071, -5000, -2588>>

\* sin(2*pi*k/365) for k = 0..364, in 1/10000.
Sin365Table ==
    <<
       0, 172, 344, 516, 688, 860, 1031, 1202, 1373, 1543, 1713, 1882,
       2051, 2219, 2387, 2554, 2720, 2885, 3049, 3213, 3375, 3537, 3697, 3857,
       4015, 4172, 4328, 4482, 4636, 4787, 4938, 5087, 5234, 5380, 5524, 5667,
       5808, 5947, 6085, 6220, 6354, 6486, 6616, 6744, 6871, 6995, 7117, 7236,
       7354, 7470, 7583, 7694, 7803, 7909, 8014, 8115, 8215, 8312, 8406, 8498,
       8588, 8675, 8759, 8841, 8920, 8996, 9070, 9141, 9210, 9275, 9338, 9399,
       9456, 9511, 9562, 9611, 9657, 9701, 9741, 9778, 9813, 9845, 9873, 9899,
       9922, 9942, 9959, 9973, 9984, 9993, 9998, 10000, 9999, 9995, 9989, 9979,
       9967, 9951, 9933, 9911, 9887, 9859, 9829, 9796, 9760, 9721, 9679, 9635,
       9587, 9537, 9484, 9428, 9369, 9307, 9243, 9176, 9106, 9034, 8958, 8881,
       8800, 8717, 8631, 8543, 8452, 8359, 8264, 8165, 8065, 7962, 7856, 7749,
       7639, 7527, 7412, 7296, 7177, 7056, 6933, 6808, 6681, 6552, 6421, 6288,
       6153, 6016, 5878, 5738, 5596, 5452, 5307, 5161, 5012, 4863, 4712, 4559,
       4405, 4250, 4094, 3936, 3777, 3617, 3456, 3294, 3131, 2967, 2802, 2637,
       2470, 2303, 2135, 1967, 1798, 1628, 1458, 1287, 1117, 945, 774, 602,
       430, 258, 86, -86, -258, -430, -602, -774, -945, -1117, -1287, -1458,
       -1628, -1798, -1967, -2135, -2303, -2470, -2637, -2802, -2967, -3131, -3294, -3456,
       -3617, -3777, -3936, -4094, -4250, -4405, -4559, -4712, -4863, -5012, -5161, -5307,
       -5452, -5596, -5738, -5878, -6016, -6153, -6288, -6421, -6552, -6681, -6808, -6933,
       -7056, -7177, -7296, -7412, -7527, -7639, -7749, -7856, -7962, -8065, -8165, -8264,
       -8359, -8452, -8543, -8631, -8717, -8800, -8881, -8958, -9034, -9106, -9176, -9243,
       -9307, -9369, -9428, -9484, -9537, -9587, -9635, -9679, -9721, -9760, -9796, -9829,
       -9859, -9887, -9911, -9933, -9951, -9967, -9979, -9989, -9995, -9999, -10000, -9998,
       -9993, -9984, -9973, -9959, -9942, -9922, -9899, -9873, -9845, -9813, -9778, -9741,
       -9701, -9657, -9611, -9562, -9511, -9456, -9399, -9338, -9275, -9210, -9141, -9070,
       -8996, -8920, -8841, -8759, -8675, -8588, -8498, -8406, -8312, -8215, -8115, -8014,
       -7909, -7803, -7694, -7583, -7470, -7354, -7236, -7117, -6995, -6871, -6744, -6616,
       -6486, -6354, -6220, -6085, -5947, -5808, -5667, -5524, -5380, -5234, -5087, -4938,
       -4787, -4636, -4482, -4328, -4172, -4015, -3857, -3697, -3537, -3375, -3213, -3049,
       -2885, -2720, -2554, -2387, -2219, -2051, -1882, -1713, -1543, -1373, -1202, -1031,
       -860, -688, -516, -344, -172
    >>

\* np.sin(2 * np.pi * k / 24)
SinHour(k) == Sin24Table[(k % 24) + 1]

\* np.sin(2 * np.pi * k / 12)
SinHalfDay(k) == Sin24Table[((2 * k) % 24) + 1]

\* np.sin(2 * np.pi * k / 365)
SinDay(k) == Sin365Table[(k % 365) + 1]

----------------------------------------------------------------------------
(* The hive topology *)

None == "None"

\* Mutant: worker_003 refers to a master that is not in the table.
hives_config_dangling ==
    << [id |-> "master_001", name |-> "Master Hive Alpha", type |-> "master",
        location |-> "North Field", master_id |-> None],
       [id |-> "worker_001", name |-> "Worker Hive 1", type |-> "worker",
        location |-> "North Field", master_id |-> "master_001"],
       [id |-> "worker_002", name |-> "Worker Hive 2", type |-> "worker",
        location |-> "North Field", master_id |-> "master_001"],
       [id |-> "worker_003", name |-> "Worker Hive 3", type |-> "worker",
        location |-> "East Field", master_id |-> "master_003"],
       [id |-> "master_002", name |-> "Master Hive Beta", type |-> "master",
        location |-> "South Field", master_id |-> None],
       [id |-> "worker_004", name |-> "Worker Hive 4", type |-> "worker",
        location |-> "South Field", master_id |-> "master_002"],
       [id |-> "worker_005", name |-> "Worker Hive 5", type |-> "worker",
        location |-> "West Field", master_id |-> "master_002"] >>

hives_config ==
    << [id |-> "master_001", name |-> "Master Hive Alpha", type |-> "master",
        location |-> "North Field", master_id |-> None],
       [id |-> "worker_001", name |-> "Worker Hive 1", type |-> "worker",
        location |-> "North Field", master_id |-> "master_001"],
       [id |-> "worker_002", name |-> "Worker Hive 2", type |-> "worker",
        location |-> "North Field", master_id |-> "master_001"],
       [id |-> "worker_003", name |-> "Worker Hive 3", type |-> "worker",
        location |-> "East Field", master_id |-> "master_001"],
       [id |-> "master_002", name |-> "Master Hive Beta", type |-> "master",
        location |-> "South Field", master_id |-> None],
       [id |-> "worker_004", name |-> "Worker Hive 4", type |-> "worker",
        location |-> "South Field", master_id |-> "master_002"],
       [id |-> "worker_005", name |-> "Worker Hive 5", type |-> "worker",
        location |-> "West Field", master_id |-> "master_002"] >>

HiveIds == {hives_config[i].id : i \in 1..Len(hives_config)}

----------------------------------------------------------------------------
(* The time grid *)

\* timestamp.hour
Hour(timestamp) == timestamp % 24

\* timestamp.timetuple().tm_yday
DayOfYear(timestamp) == (timestamp \div 24) + 1

\* timestamp.isoformat(): the date, then the time of day; ISO texts compare as
\* these pairs compare lexicographically.
Isoformat(timestamp) == <<timestamp \div 24, timestamp % 24>>

\* Mutant: the end of the window is left out.
TimeRangeHalfOpen(start, end) == [i \in 1..(end - start) |-> start + (i - 1)]

\* pd.date_range(start, end, freq='h'): start, start + 1h, ... up to end inclusive.
TimeRange(start, end) == [i \in 1..(end - start + 1) |-> start + (i - 1)]

----------------------------------------------------------------------------
(* The body of the loop: one reading *)

Min(a, b) == IF a < b THEN a ELSE b

Max(a, b) == IF a > b THEN a ELSE b

\* Mutant: the upper limit is not applied.
ClampLowOnly(lo, hi, x) == Max(lo, x)

\* max(lo, min(hi, x))
Clamp(lo, hi, x) == Max(lo, Min(hi, x))

Temperature(hour, day_of_year, temp_noise) ==
    LET base_temp == 35 * Scale + 3 * SinHour(hour) + 2 * SinDay(day_of_year)
    IN  base_temp + temp_noise

Humidity(hour, day_of_year, humidity_noise) ==
    LET base_humidity == 65 * Scale - 10 * SinHour(hour) + 5 * SinDay(day_of_year)
    IN  Clamp(30 * Scale, 90 * Scale, base_humidity + humidity_noise)

Weight(type, hour, day_of_year, weight_noise) ==
    LET base_weight == IF type = "master" THEN 40 * Scale ELSE 32 * Scale
        seasonal_weight == 5 * SinDay(day_of_year)
        daily_weight == IF 6 <= hour /\ hour <= 18 THEN -2 * SinHour(hour - 6) ELSE 0
    IN  base_weight + seasonal_weight + daily_weight + weight_noise

Activity(hour, activity_noise) ==
    LET base_activity ==
            IF 6 <= hour /\ hour <= 18
            THEN 50 * ActivityScale
                 + FixDiv(30 * SinHalfDay(hour - 6) * ActivityScale, Scale)
            ELSE 20 * ActivityScale
    IN  Clamp(0, 100 * ActivityScale, base_activity + activity_noise)

\* production_multiplier, in tenths
ProductionMultiplier(type) == IF type = "master" THEN 15 ELSE 10

\* temp_factor, in tenths
TempFactor(temperature) ==
    IF 33 * Scale <= temperature /\ temperature <= 37 * Scale THEN 10 ELSE 7

\* humidity_factor, in tenths
HumidityFactor(humidity) ==
    IF 45 * Scale <= humidity /\ humidity <= 65 * Scale THEN 10 ELSE 8

\* activity / 100, in 1/10000
ActivityFactor(activity) == FixDiv(activity * Scale, 100 * ActivityScale)

\* seasonal_factor, in 1/10000
SeasonalFactor(day_of_year) ==
    Scale \div 2
    + FixDiv(8 * (Scale \div 2 + FixDiv(5 * SinDay(day_of_year - 80), 10)), 10)

\* base_hourly_production = 0.008 * production_multiplier
BaseHourlyProduction(type) ==
    FixDiv(8 * (Kg \div 1000) * ProductionMultiplier(type), 10)

\* Mutant: the production window ends an hour late.
ActiveHourLate(hour) == 6 <= hour /\ hour <= 21

\* Mutant: the production window is taken to be the activity window [6,18].
ActiveHourDaylight(hour) == 6 <= hour /\ hour <= 18

\* 6 <= hour <= 20
ActiveHour(hour) == 6 <= hour /\ hour <= 20

HourlyProduction(type, hour, day_of_year, temperature, humidity, activity, uniform) ==
    IF ActiveHour(hour)
    THEN LET p1 == FixDiv(BaseHourlyProduction(type) * TempFactor(temperature), 10)
             p2 == FixDiv(p1 * HumidityFactor(humidity), 10)
             p3 == FixDiv(p2 * ActivityFactor(activity), Scale)
             p4 == FixDiv(p3 * SeasonalFactor(day_of_year), Scale)
         IN  FixDiv(p4 * uniform, UniformScale)
    ELSE 0

\* Mutant: the accumulator is assigned, not added to.
AccumulateOverwrite(cumulative, hourly_production) == hourly_production

\* cumulative_production[hive['id']] += hourly_production
Accumulate(cumulative, hourly_production) == cumulative + hourly_production

\* Mutant: the guard lets a zero activity through.
EfficiencyGuardNonNegative(activity) == activity >= 0

\* the guard of the efficiency division: activity > 0
EfficiencyGuard(activity) == activity > 0

\* hourly_production / (activity / 100) is evaluated with a zero divisor
DivisionError(activity) == EfficiencyGuard(activity) /\ ActivityFactor(activity) = 0

ProductionEfficiency(hourly_production, activity) ==
    IF EfficiencyGuard(activity) /\ ActivityFactor(activity) # 0
    THEN FixDiv(hourly_production * Scale, ActivityFactor(activity))
    ELSE 0

\* Mutant: the total is rounded like the hourly value, to 4 decimals.
CumulativeFieldFourDecimals(total) == Round(total, Kg \div 10000)

\* round(cumulative_production[hive['id']], 3)
CumulativeField(total) == Round(total, Kg \div 1000)

\* One pass of the inner loop body for `hive` at `timestamp`, the hive's
\* accumulator being `cumulative`, with the random draws `draw`. Returns the
\* loop's local values and the reading appended to data.
ComputeReading(timestamp, hive, cumulative, draw) ==
    LET hour == Hour(timestamp)
        day_of_year == DayOfYear(timestamp)
        temperature == Temperature(hour, day_of_year, draw.temp_noise)
        humidity == Humidity(hour, day_of_year, draw.humidity_noise)
        weight == Weight(hive.type, hour, day_of_year, draw.weight_noise)
        activity == Activity(hour, draw.activity_noise)
        hourly_production ==
            HourlyProduction(hive.type, hour, day_of_year, temperature, humidity,
                             activity, draw.uniform)
        total == Accumulate(cumulative, hourly_production)
        production_efficiency == ProductionEfficiency(hourly_production, activity)
    IN  [ raised |-> DivisionError(activity),
          hour |-> hour,
          day_of_year |-> day_of_year,
          temperature |-> temperature,
          humidity |-> humidity,
          activity |-> activity,
          hourly_production |-> hourly_production,
          cumulative |-> total,
          reading |->
            [ timestamp |-> Isoformat(timestamp),
              hive_id |-> hive.id,
              hive_name |-> hive.name,
              hive_type |-> hive.type,
              location |-> hive.location,
              master_id |-> hive.master_id,
              temperature |-> Round(temperature, Scale \div 10),
              humidity |-> Round(humidity, Scale \div 10),
              weight |-> Round(weight, Scale \div 10),
              activity_level |-> Round(activity, ActivityScale),
              hourly_production |-> Round(hourly_production, Kg \div 10000),
              cumulative_production |-> CumulativeField(total),
              production_efficiency |-> Round(production_efficiency, Kg \div 10000) ] ]

----------------------------------------------------------------------------
(* The random draws *)

\* np.random.normal(0, 0.5), in 1/10000 degrees
TempNoise == {-25000, 0, 25000}

\* np.random.normal(0, 2), in 1/10000 percent
HumidityNoise == {-400000, -150000, 0, 400000}

\* np.random.normal(0, 0.3), in 1/10000 kg
WeightNoise == {-3000, 3000}

\* np.random.normal(0, 10), in 1/100
ActivityNoise == {-10000, -2000, -1970, -1950, -1949, 0, 10000}

\* np.random.uniform(0.7, 1.3): the half-open interval [0.7, 1.3), in 1/1000
UniformDraws == {700, 1000, 1299}

AllDraws ==
    [temp_noise : TempNoise, humidity_noise : HumidityNoise, weight_noise : WeightNoise,
     activity_noise : ActivityNoise, uniform : UniformDraws]

\* The draw at the median of every distribution.
MedianDraw ==
    [temp_noise |-> 0, humidity_noise |-> 0, weight_noise |-> 3000,
     activity_noise |-> 0, uniform |-> 1000]

\* The draws a full run takes for a noisy reading: a poor hour (hot, damp, idle)
\* and a perfect one.
NoisyDraws ==
    { [temp_noise |-> 25000, humidity_noise |-> 400000, weight_noise |-> -3000,
       activity_noise |-> -1970, uniform |-> 700],
      [temp_noise |-> 0, humidity_noise |-> -150000, weight_noise |-> 3000,
       activity_noise |-> 10000, uniform |-> 1299] }

----------------------------------------------------------------------------
(* save_data_to_json and the loop of generate_beehive_data *)

\* datetime.now(): the hour the run is started at (hours since Jan 1 00:00).
EndTimes == {171 * 24 + 6, 171 * 24 + 13, 171 * 24 + 21, 172 * 24}

\* cumulative_production = {hive['id']: 0 for hive in hives_config}
InitialProduction == [id \in HiveIds |-> 0]

\* Mutant: the loops are nested the other way round (hive-major).
NextIndexHiveMajor(ti, hi) ==
    IF ti < Len(time_range) THEN <<ti + 1, hi>>
    ELSE IF hi < Len(hives_config) THEN <<1, hi + 1>>
    ELSE <<ti + 1, 1>>

\* The loop indices after the body ran at (ti, hi): the next hive, or the first
\* hive of the next timestamp.
NextIndex(ti, hi) == IF hi < Len(hives_config) THEN <<ti, hi + 1>> ELSE <<ti + 1, 1>>

\* What open(path, 'w') followed by json.dump can do.
WriteOutcomes == {"ok", "open_fails", "dump_fails"}

\* The file after the with-block: open(.., 'w') truncates it, dump fills it.
FileAfter(file, outcome) ==
    CASE outcome = "ok" -> "written"
      [] outcome = "open_fails" -> file
      [] outcome = "dump_fails" -> "truncated"

\* Mutant: the failure is swallowed and the run goes on.
AfterWriteSwallowed(outcome, next) == next

\* Where control goes after a with-block: on, or out with the exception.
AfterWrite(outcome, next) == IF outcome = "ok" THEN next ELSE "raised"

IdleRow == [timestamp |-> 0, hive |-> 1, cumulative |-> 0, draw |-> MedianDraw, out |-> <<>>]

Init ==
    /\ pc = "start"
    /\ end_time = 0
    /\ time_range = <<>>
    /\ t = 1
    /\ h = 1
    /\ cumulative_production = InitialProduction
    /\ data = <<>>
    /\ produced = <<>>
    /\ noisy = 0
    /\ beehive_file = "old"
    /\ hives_file = "old"
    /\ exception = "none"
    /\ result = "none"
    /\ row = IdleRow

\* save_data_to_json calls generate_beehive_data, which sets up the loop.
Start ==
    /\ pc = "start"
    /\ \E now \in EndTimes :
         /\ end_time' = now
         /\ time_range' = TimeRange(now - WindowHours, now)
    /\ data' = <<>>
    /\ cumulative_production' = InitialProduction
    /\ t' = 1
    /\ h' = 1
    /\ pc' = "generate"
    /\ UNCHANGED <<produced, noisy, beehive_file, hives_file, exception, result, row>>

\* One pass of the inner loop.
GenerateReading ==
    /\ pc = "generate"
    /\ t <= Len(time_range)
    /\ \E draw \in {MedianDraw} \cup NoisyDraws :
         LET hive == hives_config[h]
             out == ComputeReading(time_range[t], hive,
                                   cumulative_production[hive.id], draw)
         IN  /\ draw # MedianDraw => noisy < MaxNoisy
             /\ noisy' = IF draw # MedianDraw THEN noisy + 1 ELSE noisy
             /\ IF out.raised
                THEN /\ pc' = "raised"
                     /\ exception' = "ZeroDivisionError"
                     /\ UNCHANGED <<t, h, cumulative_production, data, produced>>
                ELSE /\ cumulative_production' =
                            [cumulative_production EXCEPT ![hive.id] = out.cumulative]
                     /\ data' = Append(data, out.reading)
                     /\ produced' = Append(produced, out.hourly_production)
                     /\ t' = NextIndex(t, h)[1]
                     /\ h' = NextIndex(t, h)[2]
                     /\ UNCHANGED <<pc, exception>>
    /\ UNCHANGED <<end_time, time_range, beehive_file, hives_file, result, row>>

\* return data, hives_config
GenerateReturn ==
    /\ pc = "generate"
    /\ t > Len(time_range)
    /\ pc' = "write_data"
    /\ UNCHANGED <<end_time, time_range, t, h, cumulative_production, data, produced,
                   noisy, beehive_file, hives_file, exception, result, row>>

\* with open('beehive_data.json', 'w') as f: json.dump(data, f, indent=2)
WriteData ==
    /\ pc = "write_data"
    /\ \E outcome \in WriteOutcomes :
         /\ beehive_file' = FileAfter(beehive_file, outcome)
         /\ pc' = AfterWrite(outcome, "write_config")
         /\ exception' = IF outcome = "ok" THEN exception ELSE "beehive_data.json"
    /\ UNCHANGED <<end_time, time_range, t, h, cumulative_production, data, produced,
                   noisy, hives_file, result, row>>

\* with open('hives_config.json', 'w') as f: json.dump(hives_config, f, indent=2)
WriteConfig ==
    /\ pc = "write_config"
    /\ \E outcome \in WriteOutcomes :
         /\ hives_file' = FileAfter(hives_file, outcome)
         /\ pc' = AfterWrite(outcome, "print_summary")
         /\ exception' = IF outcome = "ok" THEN exception ELSE "hives_config.json"
    /\ UNCHANGED <<end_time, time_range, t, h, cumulative_production, data, produced,
                   noisy, beehive_file, result, row>>

\* the three print calls, then return True
ReturnTrue ==
    /\ pc = "print_summary"
    /\ result' = "True"
    /\ pc' = "done"
    /\ UNCHANGED <<end_time, time_range, t, h, cumulative_production, data, produced,
                   noisy, beehive_file, hives_file, exception, row>>

Next ==
    \/ Start
    \/ GenerateReading
    \/ GenerateReturn
    \/ WriteData
    \/ WriteConfig
    \/ ReturnTrue

Spec == Init /\ [][Next]_vars

----------------------------------------------------------------------------
(* The loop body alone, over a wide range of inputs *)

\* Timestamps of every hour of Jan 1 and of Jun 21 (day_of_year 172).
RowTimestamps == (0..23) \cup ((171 * 24)..(171 * 24 + 23))

\* The hive's accumulator before the reading (1e-7 kg).
RowCumulatives == {0, 12345678}

RowInit ==
    /\ pc = "start"
    /\ end_time = 0
    /\ time_range = <<>>
    /\ t = 1
    /\ h = 1
    /\ cumulative_production = InitialProduction
    /\ data = <<>>
    /\ produced = <<>>
    /\ noisy = 0
    /\ beehive_file = "old"
    /\ hives_file = "old"
    /\ exception = "none"
    /\ result = "none"
    /\ row \in [timestamp : RowTimestamps, hive : 1..Len(hives_config),
                cumulative : RowCumulatives, draw : AllDraws, out : {<<>>}]

RowCompute ==
    /\ row.out = <<>>
    /\ row' = [row EXCEPT !.out = <<ComputeReading(row.timestamp, hives_config[row.hive],
                                                   row.cumulative, row.draw)>>]
    /\ UNCHANGED <<pc, end_time, time_range, t, h, cumulative_production, data, produced,
                   noisy, beehive_file, hives_file, exception, result>>

RowNext == RowCompute

RowSpec == RowInit /\ [][RowNext]_vars

----------------------------------------------------------------------------
(* Properties of a full run (Spec) *)

RECURSIVE SumEmitted(_, _)
\* The sum of the emitted hourly_production of hive id over data[1..i].
SumEmitted(i, id) ==
    IF i = 0 THEN 0
    ELSE SumEmitted(i - 1, id)
         + (IF data[i].hive_id = id THEN data[i].hourly_production ELSE 0)

RECURSIVE SumProduced(_, _)
\* The sum of the unrounded hourly_production of hive id over the first i readings.
SumProduced(i, id) ==
    IF i = 0 THEN 0
    ELSE SumProduced(i - 1, id) + (IF data[i].hive_id = id THEN produced[i] ELSE 0)

\* The number of readings of hive id among data[1..i].
CountReadings(i, id) == Cardinality({j \in 1..i : data[j].hive_id = id})

Abs(x) == IF x < 0 THEN -x ELSE x

\* The order of two isoformat texts: by date, then by time of day.
IsoLess(a, b) == a[1] < b[1] \/ (a[1] = b[1] /\ a[2] < b[2])

\* generate_beehive_data has returned its list.
Generated ==
    \/ pc \in {"write_data", "write_config", "print_summary", "done"}
    \/ pc = "raised" /\ exception # "ZeroDivisionError"

\* C1: for every hive, the emitted cumulative_production is non-decreasing along
\* that hive's readings in the order they were generated (ascending timestamps).
C1_CumulativeNonDecreasing ==
    \A i, j \in 1..Len(data) :
        (i < j /\ data[i].hive_id = data[j].hive_id)
            => data[i].cumulative_production <= data[j].cumulative_production

\* A hive has two readings, the later with a strictly larger emitted total.
C1_Witness ==
    \E i, j \in 1..Len(data) :
        /\ i < j
        /\ data[i].hive_id = data[j].hive_id
        /\ data[i].cumulative_production < data[j].cumulative_production

\* C2 as stated: every emitted cumulative_production equals the sum of the
\* emitted hourly_production values of that hive up to and including the reading.
C2_EmittedSumOfEmitted ==
    \A i \in 1..Len(data) :
        data[i].cumulative_production = SumEmitted(i, data[i].hive_id)

\* C2 amended: every emitted cumulative_production is the running sum of the
\* hive's unrounded hourly_production (from 0, current hour included) rounded to
\* 3 decimals; it differs from the sum of the emitted hourly values by at most
\* 0.0005 kg plus 0.00005 kg per reading summed; and the accumulator holds the
\* unrounded running sum.
C2_RoundedRunningSum ==
    /\ Len(produced) = Len(data)
    /\ \A i \in 1..Len(data) :
         LET id == data[i].hive_id
         IN  /\ data[i].cumulative_production = Round(SumProduced(i, id), Kg \div 1000)
             /\ Abs(data[i].cumulative_production - SumEmitted(i, id))
                    <= (Kg \div 1000) \div 2
                       + CountReadings(i, id) * ((Kg \div 10000) \div 2)
    /\ pc = "generate" =>
         \A id \in HiveIds : cumulative_production[id] = SumProduced(Len(data), id)

\* A hive's second reading, both hours productive, whose emitted total is not
\* the sum of the emitted hourly values.
C2_Witness ==
    \E i, j \in 1..Len(data) :
        /\ i < j
        /\ data[i].hive_id = data[j].hive_id
        /\ produced[i] > 0
        /\ produced[j] > 0
        /\ data[j].cumulative_production # SumEmitted(j, data[j].hive_id)

\* C6: the list is timestamp-major, hive-minor: timestamps never decrease along
\* it, readings share a timestamp exactly within a block of one per hive, and
\* within each block the hives come in the declaration order of the topology.
C6_TimestampMajorHiveMinor ==
    LET n == Len(hives_config)
    IN  /\ \A i \in 1..Len(data) : data[i].hive_id = hives_config[((i - 1) % n) + 1].id
        /\ \A i, j \in 1..Len(data) :
             i < j =>
                /\ ~IsoLess(data[j].timestamp, data[i].timestamp)
                /\ (data[i].timestamp = data[j].timestamp)
                       <=> ((i - 1) \div n = (j - 1) \div n)

\* Two full blocks have been generated.
C6_Witness ==
    /\ Len(data) >= 2 * Len(hives_config)
    /\ IsoLess(data[1].timestamp, data[Len(data)].timestamp)

\* C7: the returned list holds exactly one reading for each hour of the closed
\* window [end_time - WindowHours, end_time] and each hive, so its length is
\* the number of hourly timestamps times 7.
C7_OneReadingPerPair ==
    Generated =>
        /\ Len(data) = (WindowHours + 1) * 7
        /\ Len(data) = Len(time_range) * Len(hives_config)
        /\ \A ts \in (end_time - WindowHours)..end_time :
             \A k \in 1..Len(hives_config) :
                Cardinality({i \in 1..Len(data) :
                                /\ data[i].timestamp = Isoformat(ts)
                                /\ data[i].hive_id = hives_config[k].id}) = 1

\* The generator has returned a list covering more than one timestamp.
C7_Witness ==
    /\ pc = "write_data"
    /\ Len(data) = (WindowHours + 1) * 7
    /\ Len(time_range) >= 2

\* A hive record, or the hive fields of a reading, respects the topology rule:
\* a worker's master_id is the id of a master of the topology, a master has none.
HiveRuleHolds(type, master_id) ==
    /\ type \in {"master", "worker"}
    /\ type = "worker" =>
         \E k \in 1..Len(hives_config) :
            hives_config[k].type = "master" /\ hives_config[k].id = master_id
    /\ type = "master" => master_id = None

\* C8: every worker of the topology refers to a master of the topology and every
\* master has no master_id, and so do the hive fields of every emitted reading.
C8_TopologyResolves ==
    /\ \A k \in 1..Len(hives_config) :
         HiveRuleHolds(hives_config[k].type, hives_config[k].master_id)
    /\ \A i \in 1..Len(data) : HiveRuleHolds(data[i].hive_type, data[i].master_id)

\* Readings of a master and of a worker of each group have been emitted.
C8_Witness ==
    /\ \E i \in 1..Len(data) : data[i].hive_type = "master" /\ data[i].master_id = None
    /\ \E i \in 1..Len(data) : data[i].master_id = "master_001"
    /\ \E i \in 1..Len(data) : data[i].master_id = "master_002"

\* C10: a failed write raises out of save_data_to_json: nothing runs after it
\* (no retry, no return value), the other file is left as it is (a written
\* readings file stays written, the topology write is not attempted after a
\* failed readings write), and True is returned only with both files written.
C10_WritesUnguarded ==
    /\ [](/\ result = "True" => (beehive_file = "written" /\ hives_file = "written")
          /\ exception # "none" => (pc = "raised" /\ result # "True")
          /\ pc = "raised" => exception # "none"
          /\ exception = "beehive_data.json" =>
                (beehive_file # "written" /\ hives_file = "old")
          /\ exception = "hives_config.json" =>
                (beehive_file = "written" /\ hives_file # "written"))
    /\ [][/\ pc # "raised"
          /\ beehive_file = "written" => beehive_file' = "written"
          /\ hives_file = "written" => hives_file' = "written"]_vars

\* The topology write failed after the readings file was written.
C10_Witness ==
    /\ pc = "raised"
    /\ exception = "hives_config.json"
    /\ beehive_file = "written"
    /\ hives_file = "truncated"

----------------------------------------------------------------------------
(* Properties of one reading (RowSpec) *)

Computed == Len(row.out) = 1

\* The loop's values for the reading: defined when Computed.
Out == row.out[1]

\* C3 as stated: a reading emitted with activity_level 0 has
\* production_efficiency 0.
C3_ZeroLevelZeroEfficiency ==
    Computed =>
        (Out.reading.activity_level = 0 => Out.reading.production_efficiency = 0)

\* C3 amended: the efficiency division never has a zero divisor;
\* production_efficiency is 0 whenever the unrounded activity is 0; and a
\* reading emitted with activity_level 0 and a non-zero production_efficiency
\* has an unrounded activity in (0, 0.5], in an hour of the window [6,20].
C3_ZeroActivityZeroEfficiency ==
    Computed =>
        /\ ~Out.raised
        /\ Out.activity = 0 => Out.reading.production_efficiency = 0
        /\ (Out.reading.activity_level = 0 /\ Out.reading.production_efficiency # 0)
              => /\ 0 < Out.activity
                 /\ 2 * Out.activity <= ActivityScale
                 /\ 6 <= Out.hour /\ Out.hour <= 20

\* A reading in a productive hour whose activity was clamped to exactly 0.
C3_Witness ==
    /\ Computed
    /\ Out.hour = 12
    /\ row.draw.activity_noise = -10000
    /\ Out.activity = 0
    /\ Out.reading.activity_level = 0
    /\ Out.reading.production_efficiency = 0

\* C4: a reading whose hour is outside [6,20] has hourly_production exactly 0,
\* emitted and unrounded, and leaves the hive's accumulator unchanged.
C4_InactiveHourNoProduction ==
    (Computed /\ ~(6 <= Out.hour /\ Out.hour <= 20)) =>
        /\ Out.reading.hourly_production = 0
        /\ Out.hourly_production = 0
        /\ Out.cumulative = row.cumulative

\* hour = 2 with full activity, ideal temperature and humidity, and a non-zero
\* accumulator.
C4_Witness ==
    /\ Computed
    /\ Out.hour = 2
    /\ Out.activity = 100 * ActivityScale
    /\ TempFactor(Out.temperature) = 10
    /\ HumidityFactor(Out.humidity) = 10
    /\ row.cumulative > 0
    /\ Out.cumulative = row.cumulative

\* C5: every emitted activity_level is in [0,100] and every emitted humidity is
\* in [30,90].
C5_ClampedRanges ==
    Computed =>
        /\ 0 <= Out.reading.activity_level
        /\ Out.reading.activity_level <= 100 * ActivityScale
        /\ 30 * Scale <= Out.reading.humidity
        /\ Out.reading.humidity <= 90 * Scale

\* Noise far above the humidity range and far below the activity range.
C5_Witness ==
    /\ Computed
    /\ row.draw.humidity_noise = 400000
    /\ row.draw.activity_noise = -10000
    /\ Out.reading.humidity = 90 * Scale
    /\ Out.reading.activity_level = 0

\* The case of C9: a master hive in an hour of [6,20] with activity 100,
\* temperature in [33,37] and humidity in [45,65].
C9_Case ==
    /\ Computed
    /\ hives_config[row.hive].type = "master"
    /\ 6 <= Out.hour /\ Out.hour <= 20
    /\ Out.activity = 100 * ActivityScale
    /\ 33 * Scale <= Out.temperature /\ Out.temperature <= 37 * Scale
    /\ 45 * Scale <= Out.humidity /\ Out.humidity <= 65 * Scale

\* 0.008 x 1.5 x 1.3 x seasonal_factor, in 1e-7 kg times Scale.
C9_BoundScaled == 156000 * SeasonalFactor(Out.day_of_year)

\* C9 as stated, of the emitted value: it is positive and at most
\* 0.008 x 1.5 x 1.3 x seasonal_factor.
C9_EmittedWithinBound ==
    C9_Case =>
        /\ Out.reading.hourly_production > 0
        /\ Out.reading.hourly_production <= C9_BoundScaled \div Scale

\* C9 amended: in that case the unrounded hourly_production is positive and at
\* most 0.008 x 1.5 x 1.3 x seasonal_factor; the emitted value (rounded to 4
\* decimals) is positive and exceeds that bound by at most 0.00005 kg.
C9_ProductionWithinBound ==
    C9_Case =>
        /\ Out.hourly_production > 0
        /\ Out.hourly_production <= C9_BoundScaled \div Scale
        /\ Out.reading.hourly_production > 0
        /\ Out.reading.hourly_production
              <= (C9_BoundScaled + ((Kg \div 10000) \div 2) * Scale) \div Scale

\* hour 12 of day 172 with the largest uniform multiplier.
C9_Witness ==
    /\ C9_Case
    /\ Out.hour = 12
    /\ Out.day_of_year = 172
    /\ row.draw.uniform = 1299

====
